---- MODULE Spec2Model ----
(***************************************************************************)
(* Model of the SOC Report Authoring Tool (src/app.py): the Report held in *)
(* st.session_state.form_data, the dot-path accessors, the JSON export and *)
(* import, and the script run() that Streamlit executes after every user   *)
(* event.                                                                  *)
(*                                                                         *)
(* Text is a sequence of chunks in which every space and every dot is a    *)
(* chunk of its own, so that str.split('.') and str.replace(' ', '_') are  *)
(* computed and not assumed.  A JSON value is a record                     *)
(*   [t: kind, s: text, b: boolean, o: members]                            *)
(* of one shape for every kind, members being a function from keys (text)  *)
(* to values.  A JSON document (the bytes of a file) is a sequence of      *)
(* tokens.  Python's dict keeps insertion order; equality of dicts ignores *)
(* it and so does this model.                                              *)
(***************************************************************************)
EXTENDS Integers, Sequences, FiniteSets, TLC

VARIABLES
    form_data,           \* st.session_state.form_data: the Report
    last_uploaded_file,  \* st.session_state.last_uploaded_file: {} when the key is absent, else {name}
    uploader,            \* the file held by the "Import JSON" uploader: {} or {file}
    widgets,             \* keys of the widgets the last script run created
    messages,            \* st.error / st.success messages of the last script run
    exception,           \* the unhandled exception that ended the last script run, "" when none
    export,              \* what the "Export JSON" button of the last run offers: {} or
                         \* {[data, file_name, report]}, report (history) being the Report serialized
    pdf,                 \* what the "Download PDF" button of the last run offers: {} or {file_name}
    calls,               \* the calls of the "Generate PDF" branch of the last run, in order,
                         \* each with what it returned
    imported,            \* the document that import_json stored in the last run: {} or {value}
    downloaded,          \* the JSON file the user saved from "Export JSON": {} or {file}
    exported,            \* history: the Report that the saved file was serialized from: {} or {value}
    last,                \* the last direct call of an accessor and its outcome
    events               \* number of user events so far, by kind

vars == <<form_data, last_uploaded_file, uploader, widgets, messages, exception,
          export, pdf, calls, imported, downloaded, exported, last, events>>

-----------------------------------------------------------------------------
(* Bounds *)

MaxEvents == 3
MaxUpdates == 1

-----------------------------------------------------------------------------
(* JSON values *)

NoMembers == [k \in {} |-> k]

JStr(s)  == [t |-> "str",  s |-> s,    b |-> FALSE, o |-> NoMembers]
JBool(b) == [t |-> "bool", s |-> <<>>, b |-> b,     o |-> NoMembers]
JNum(s)  == [t |-> "num",  s |-> s,    b |-> FALSE, o |-> NoMembers]
JNull    == [t |-> "null", s |-> <<>>, b |-> FALSE, o |-> NoMembers]
JObj(o)  == [t |-> "obj",  s |-> <<>>, b |-> FALSE, o |-> o]

\* d[k] = v on a dict: the key is added when absent
Assign(o, k, v) == [x \in DOMAIN o \cup {k} |-> IF x = k THEN v ELSE o[x]]

Key(name) == <<name>>

Attack ==
    JObj(Assign(Assign(Assign(Assign(NoMembers,
        Key("title"), JStr(<<>>)),
        Key("image"), JStr(<<>>)),
        Key("description"), JStr(<<>>)),
        Key("mitigated"), JBool(FALSE)))

Takeaway ==
    JObj(Assign(Assign(Assign(NoMembers,
        Key("quote"), JStr(<<>>)),
        Key("author"), JStr(<<>>)),
        Key("picture"), JStr(<<>>)))

get_default_form_data ==
    JObj(Assign(Assign(Assign(Assign(Assign(Assign(Assign(Assign(NoMembers,
        Key("report_date"), JStr(<<>>)),
        Key("threat_level"), JStr(<<"Guarded">>)),
        Key("generalSituation"), JStr(<<>>)),
        Key("hunting_text"), JStr(<<>>)),
        Key("attack1"), Attack),
        Key("attack2"), Attack),
        Key("attack3"), Attack),
        Key("takeaway"), Takeaway))

ThreatLevels == <<"Guarded", "Elevated", "High", "Severe">>

-----------------------------------------------------------------------------
(* Path accessor *)

\* index of the first "." of a text, 0 when there is none
FirstDot(s) ==
    IF \E i \in 1..Len(s) : s[i] = "."
    THEN CHOOSE i \in 1..Len(s) : s[i] = "." /\ \A j \in 1..(i - 1) : s[j] # "."
    ELSE 0

\* field_path.split('.')
RECURSIVE Split(_)
Split(s) ==
    IF FirstDot(s) = 0 THEN <<s>>
    ELSE <<SubSeq(s, 1, FirstDot(s) - 1)>> \o Split(SubSeq(s, FirstDot(s) + 1, Len(s)))

Found(v)    == [ok |-> TRUE,  err |-> "",  val |-> v]
Raised(e)   == [ok |-> FALSE, err |-> e,   val |-> JNull]

\* data[part] for a str part: a dict looks the key up, anything else cannot be
\* indexed by a str
Subscript(data, part) ==
    IF data.t = "obj"
    THEN IF part \in DOMAIN data.o THEN Found(data.o[part]) ELSE Raised("KeyError")
    ELSE Raised("TypeError")

RECURSIVE Walk(_, _)
Walk(data, parts) ==
    IF parts = <<>> THEN Found(data)
    ELSE LET r == Subscript(data, Head(parts))
         IN IF r.ok THEN Walk(r.val, Tail(parts)) ELSE r

get_field_value(doc, field_path) == Walk(doc, Split(field_path))

\* data[parts[-1]] = value, after the walk along parts[:-1]; the dicts are
\* mutated in place, so the result is the whole document
\* Store without the walk: the last part is assigned at the top level
StoreAtTop(data, parts, value) ==
    IF data.t = "obj"
    THEN Found(JObj(Assign(data.o, parts[Len(parts)], value)))
    ELSE Raised("TypeError")

RECURSIVE Store(_, _, _)
Store(data, parts, value) ==
    IF Len(parts) = 1
    THEN IF data.t = "obj"
         THEN Found(JObj(Assign(data.o, parts[1], value)))
         ELSE Raised("TypeError")
    ELSE LET r == Subscript(data, Head(parts))
         IN IF ~r.ok THEN r
            ELSE LET n == Store(r.val, Tail(parts), value)
                 IN IF n.ok THEN Found(JObj(Assign(data.o, Head(parts), n.val))) ELSE n

\* the outcome of update_field and the Report after it
update_field(doc, field_path, value) ==
    LET r == Store(doc, Split(field_path), value)
    IN [ok |-> r.ok, err |-> r.err, doc |-> IF r.ok THEN r.val ELSE doc]

\* import_json: the document replaces the Report, whatever it is
import_json(doc, json_data) == json_data

-----------------------------------------------------------------------------
(* JSON text: json.dumps and json.loads *)

Tok(k, s) == [k |-> k, s |-> s]

RECURSIVE dumps(_), DumpMembers(_, _)

\* dumps writing a bool as the text of str(v)
DumpsBoolAsText(v) ==
    CASE v.t = "str"  -> <<Tok("string", v.s)>>
      [] v.t = "bool" -> <<Tok("string", <<IF v.b THEN "True" ELSE "False">>)>>
      [] v.t = "num"  -> <<Tok("number", v.s)>>
      [] v.t = "null" -> <<Tok("null", <<>>)>>
      [] v.t = "obj"  -> <<Tok("{", <<>>)>> \o DumpMembers(v.o, DOMAIN v.o) \o <<Tok("}", <<>>)>>

dumps(v) ==
    CASE v.t = "str"  -> <<Tok("string", v.s)>>
      [] v.t = "bool" -> <<Tok(IF v.b THEN "true" ELSE "false", <<>>)>>
      [] v.t = "num"  -> <<Tok("number", v.s)>>
      [] v.t = "null" -> <<Tok("null", <<>>)>>
      [] v.t = "obj"  -> <<Tok("{", <<>>)>> \o DumpMembers(v.o, DOMAIN v.o) \o <<Tok("}", <<>>)>>

DumpMembers(o, keys) ==
    IF keys = {} THEN <<>>
    ELSE LET k == CHOOSE x \in keys : TRUE
         IN <<Tok("string", k), Tok(":", <<>>)>> \o dumps(o[k])
            \o (IF keys = {k} THEN <<>> ELSE <<Tok(",", <<>>)>>)
            \o DumpMembers(o, keys \ {k})

Parsed(v, n) == [ok |-> TRUE,  val |-> v,     next |-> n]
NoParse      == [ok |-> FALSE, val |-> JNull, next |-> 0]

\* the value that starts at token i, and the index after it
RECURSIVE ParseValue(_, _), ParseMembers(_, _, _)
ParseValue(toks, i) ==
    IF i > Len(toks) THEN NoParse
    ELSE CASE toks[i].k = "string" -> Parsed(JStr(toks[i].s), i + 1)
           [] toks[i].k = "number" -> Parsed(JNum(toks[i].s), i + 1)
           [] toks[i].k = "true"   -> Parsed(JBool(TRUE), i + 1)
           [] toks[i].k = "false"  -> Parsed(JBool(FALSE), i + 1)
           [] toks[i].k = "null"   -> Parsed(JNull, i + 1)
           [] toks[i].k = "{"      ->
                IF i + 1 <= Len(toks) /\ toks[i + 1].k = "}"
                THEN Parsed(JObj(NoMembers), i + 2)
                ELSE ParseMembers(toks, i + 1, NoMembers)
           [] OTHER -> NoParse

\* "key": value pairs up to the closing brace; a repeated key keeps its last value
ParseMembers(toks, i, acc) ==
    IF i + 1 > Len(toks) \/ toks[i].k # "string" \/ toks[i + 1].k # ":" THEN NoParse
    ELSE LET r == ParseValue(toks, i + 2)
         IN IF ~r.ok \/ r.next > Len(toks) THEN NoParse
            ELSE IF toks[r.next].k = ","
                 THEN ParseMembers(toks, r.next + 1, Assign(acc, toks[i].s, r.val))
            ELSE IF toks[r.next].k = "}"
                 THEN Parsed(JObj(Assign(acc, toks[i].s, r.val)), r.next + 1)
            ELSE NoParse

\* json.loads: one value and nothing after it, else JSONDecodeError
loads(toks) ==
    LET r == ParseValue(toks, 1)
    IN IF r.ok /\ r.next = Len(toks) + 1 THEN Found(r.val) ELSE Raised("JSONDecodeError")

\* s.replace(' ', '_')
replace(s) == [i \in 1..Len(s) |-> IF s[i] = " " THEN "_" ELSE s[i]]

\* f"SOC_Report_{st.session_state.form_data['report_date'].replace(' ', '_')}<ext>"
file_name(doc, ext) ==
    LET r == Subscript(doc, Key("report_date"))
    IN IF ~r.ok THEN r
       ELSE IF r.val.t # "str" THEN Raised("AttributeError")
       ELSE Found(JStr(<<"SOC_Report_">> \o replace(r.val.s) \o <<ext>>))

-----------------------------------------------------------------------------
(* The script run *)

Path1(a)    == <<a>>
Path2(a, b) == <<a, ".", b>>

Widget(key, path, kind) == [key |-> key, path |-> path, kind |-> kind]

AttackWidgets(k) ==
    << Widget(<<k, "_title_input">>,       Path2(k, "title"),       "text"),
       Widget(<<k, "_image_input">>,       Path2(k, "image"),       "text"),
       Widget(<<k, "_description_input">>, Path2(k, "description"), "text"),
       Widget(<<k, "_mitigated_input">>,   Path2(k, "mitigated"),   "checkbox") >>

\* the input widgets of the form, in the order run() creates them
FormWidgets ==
    << Widget(<<"report_date_input">>,       Path1("report_date"),      "text"),
       Widget(<<"threat_level_input">>,      Path1("threat_level"),     "select"),
       Widget(<<"general_situation_input">>, Path1("generalSituation"), "text"),
       Widget(<<"hunting_text_input">>,      Path1("hunting_text"),     "text") >>
    \o AttackWidgets("attack1") \o AttackWidgets("attack2") \o AttackWidgets("attack3")
    \o << Widget(<<"takeaway_quote_input">>,   Path2("takeaway", "quote"),   "text"),
          Widget(<<"takeaway_author_input">>,  Path2("takeaway", "author"),  "text"),
          Widget(<<"takeaway_picture_input">>, Path2("takeaway", "picture"), "text") >>

\* What Template(...).render and page.pdf do is the environment's: they return
\* (the HTML of the template, the bytes of a PDF: neither is empty) or raise.
RenderOutcomes == {"html", "error"}
PdfOutcomes    == {"bytes", "error"}

\* render_template: the rendered HTML, or None and an error message
render_template(outcome) ==
    IF outcome = "error"
    THEN [value |-> "None",  messages |-> {"Error rendering template"}]
    ELSE [value |-> outcome, messages |-> {}]

\* generate_pdf: the PDF bytes, or None and an error message
generate_pdf(outcome) ==
    IF outcome = "error"
    THEN [value |-> "None",  messages |-> {"Error generating PDF"}]
    ELSE [value |-> outcome, messages |-> {}]

\* truth value of a str, a bytes or None
Truthy(x) == x \in {"html", "bytes"}

\* GeneratePdf without the test of pdf_bytes
GeneratePdfUnchecked(doc, clicked, r1, p1) ==
    LET c1 == <<[fn |-> "render_template", returned |-> render_template(r1).value]>>
        c2 == c1 \o <<[fn |-> "generate_pdf", returned |-> generate_pdf(p1).value]>>
        fn == file_name(doc, ".pdf")
        none == [calls |-> <<>>, messages |-> {}, pdf |-> {}, exc |-> ""]
    IN IF ~clicked THEN none
       ELSE IF ~Truthy(render_template(r1).value)
       THEN [none EXCEPT !.calls = c1, !.messages = render_template(r1).messages]
       ELSE IF ~fn.ok
       THEN [none EXCEPT !.calls = c2, !.messages = generate_pdf(p1).messages, !.exc = fn.err]
       ELSE [none EXCEPT !.calls = c2 \o <<[fn |-> "download_button", returned |-> "widget"]>>,
                         !.messages = generate_pdf(p1).messages,
                         !.pdf = {fn.val.s}]

Call(fn, returned) == [fn |-> fn, returned |-> returned]

\* if st.button("Generate PDF"): render, then the PDF, then the download button
GeneratePdf(doc, clicked, r1, p1) ==
    LET html  == render_template(r1)
        bytes == generate_pdf(p1)
        fn    == file_name(doc, ".pdf")
        none  == [calls |-> <<>>, messages |-> {}, pdf |-> {}, exc |-> ""]
        c1    == <<Call("render_template", html.value)>>
        c2    == c1 \o <<Call("generate_pdf", bytes.value)>>
    IN IF ~clicked THEN none
       ELSE IF ~Truthy(html.value)
       THEN [none EXCEPT !.calls = c1, !.messages = html.messages]
       ELSE IF ~Truthy(bytes.value)
       THEN [none EXCEPT !.calls = c2, !.messages = bytes.messages]
       ELSE IF ~fn.ok
       THEN [none EXCEPT !.calls = c2, !.exc = fn.err]
       ELSE [none EXCEPT !.calls = c2 \o <<Call("download_button", "widget")>>,
                         !.pdf = {fn.val.s}]

\* ImportJson recording the file before it is parsed
ImportJsonRecordFirst(doc, flag, upl) ==
    LET same == [form_data |-> doc, last_uploaded_file |-> flag, messages |-> {}, imported |-> {}]
    IN IF upl # {} /\ flag = {}
       THEN LET f == CHOOSE x \in upl : TRUE
                data == loads(f.data)
            IN IF data.ok
               THEN [form_data |-> import_json(doc, data.val),
                     last_uploaded_file |-> {f.name},
                     messages |-> {"Data imported successfully!"},
                     imported |-> {data.val}]
               ELSE [same EXCEPT !.last_uploaded_file = {f.name},
                                 !.messages = {"Error importing JSON"}]
       ELSE IF upl = {} THEN [same EXCEPT !.last_uploaded_file = {}]
       ELSE same

\* ImportJson without the guard: the file is imported in every run that finds it
ImportJsonEveryRun(doc, flag, upl) ==
    LET same == [form_data |-> doc, last_uploaded_file |-> flag, messages |-> {}, imported |-> {}]
    IN IF upl # {}
       THEN LET f == CHOOSE x \in upl : TRUE
                data == loads(f.data)
            IN IF data.ok
               THEN [form_data |-> import_json(doc, data.val),
                     last_uploaded_file |-> {f.name},
                     messages |-> {"Data imported successfully!"},
                     imported |-> {data.val}]
               ELSE [same EXCEPT !.messages = {"Error importing JSON"}]
       ELSE [same EXCEPT !.last_uploaded_file = {}]

\* the "Import JSON" column: import once per presence of a file in the uploader
ImportJson(doc, flag, upl) ==
    LET same == [form_data |-> doc, last_uploaded_file |-> flag, messages |-> {}, imported |-> {}]
    IN IF upl # {} /\ flag = {}
       THEN LET f == CHOOSE x \in upl : TRUE
                data == loads(f.data)
            IN IF data.ok
               THEN [form_data |-> import_json(doc, data.val),
                     last_uploaded_file |-> {f.name},
                     messages |-> {"Data imported successfully!"},
                     imported |-> {data.val}]
               ELSE [same EXCEPT !.messages = {"Error importing JSON"}]
       ELSE IF upl = {} THEN [same EXCEPT !.last_uploaded_file = {}]
       ELSE same

IsThreatLevel(v) ==
    v.t = "str" /\ \E i \in 1..Len(ThreatLevels) : v.s = <<ThreatLevels[i]>>

\* the exception raised while run() creates form widget w, "" when none
WidgetError(doc, w) ==
    LET r == get_field_value(doc, w.path)
    IN IF ~r.ok THEN r.err
       ELSE IF w.kind = "select" /\ ~IsThreatLevel(r.val) THEN "ValueError"
       ELSE ""

\* index of the first form widget whose creation raises, 0 when none does
FirstFailing(doc) ==
    IF \E i \in 1..Len(FormWidgets) : WidgetError(doc, FormWidgets[i]) # ""
    THEN CHOOSE i \in 1..Len(FormWidgets) :
            /\ WidgetError(doc, FormWidgets[i]) # ""
            /\ \A j \in 1..(i - 1) : WidgetError(doc, FormWidgets[j]) = ""
    ELSE 0

\* One execution of run(): the session state after it and what it put on the page.
RunScript(doc, flag, upl, clicked, r1, p1, r2) ==
    LET a    == GeneratePdf(doc, clicked, r1, p1)
        fn   == file_name(doc, ".json")
        c    == ImportJson(doc, flag, upl)
        k    == FirstFailing(c.form_data)
        top  == {<<"generate_pdf">>} \cup (IF a.pdf = {} THEN {} ELSE {<<"download_pdf">>})
        bar  == top \cup {<<"export_json">>, <<"import_json">>}
        stop == [form_data |-> doc, last_uploaded_file |-> flag, widgets |-> top,
                 messages |-> a.messages, exception |-> a.exc, export |-> {},
                 pdf |-> a.pdf, calls |-> a.calls, imported |-> {}]
        form == [stop EXCEPT
                   !.form_data = c.form_data,
                   !.last_uploaded_file = c.last_uploaded_file,
                   !.messages = a.messages \cup c.messages,
                   !.export = {[data |-> dumps(doc), file_name |-> fn.val.s, report |-> doc]},
                   !.imported = c.imported]
    IN IF a.exc # "" THEN stop
       ELSE IF ~fn.ok THEN [stop EXCEPT !.exception = fn.err]
       ELSE IF k # 0
       THEN [form EXCEPT
               !.widgets = bar \cup {FormWidgets[j].key : j \in 1..(k - 1)},
               !.exception = WidgetError(c.form_data, FormWidgets[k])]
       ELSE [form EXCEPT
               !.widgets = bar \cup {FormWidgets[j].key : j \in 1..Len(FormWidgets)},
               !.messages = @ \cup render_template(r2).messages]

-----------------------------------------------------------------------------
(* The user's inputs *)

TextInputs == {<<>>, <<"May", " ", "2025">>}

\* the values a widget of each kind can hand to its on_change callback
InputValues(kind) ==
    CASE kind = "text"     -> {JStr(t) : t \in TextInputs}
      [] kind = "select"   -> {JStr(<<ThreatLevels[i]>>) : i \in 1..Len(ThreatLevels)}
      [] kind = "checkbox" -> {JBool(TRUE), JBool(FALSE)}

\* the widgets the user edits: one of each kind at the top level, in an attack
\* and in the takeaway (report_date, threat_level, hunting_text,
\* attack1.mitigated, attack2.image, takeaway.picture)
EditedWidgets == {1, 2, 4, 8, 10, 19}

File(name, data) == [name |-> name, data |-> data]

\* the user events so far
UserEvents == events.edits + events.files + events.clicks

ReportOfMay ==
    update_field(update_field(update_field(get_default_form_data,
        Path1("report_date"), JStr(<<"May", " ", "2025">>)).doc,
        Path1("threat_level"), JStr(<<"High">>)).doc,
        Path2("attack2", "mitigated"), JBool(TRUE)).doc

ReportOfJune ==
    update_field(ReportOfMay, Path1("report_date"), JStr(<<"June", " ", "2025">>)).doc

LowReport == update_field(ReportOfMay, Path1("threat_level"), JStr(<<"Low">>)).doc

\* the files the user can put into the uploader, besides a saved export
Files ==
    { File(<<"may.json">>,       dumps(ReportOfMay)),
      File(<<"june.json">>,      dumps(ReportOfJune)),
      File(<<"low.json">>,       dumps(LowReport)),
      File(<<"empty.json">>,     <<Tok("{", <<>>), Tok("}", <<>>)>>),
      File(<<"truncated.json">>, SubSeq(dumps(ReportOfMay), 1, 7)) }

-----------------------------------------------------------------------------
(* The session: one action per user event, each followed by the script run *)
(*                                                                         *)
(* Streamlit runs main() from the top after every user event; a widget's   *)
(* on_change callback runs before that rerun.  An exception that no try    *)
(* block catches ends the run where it is raised: the widgets created      *)
(* before it stay on the page, those after it are not created.  A file put *)
(* into the single-file uploader replaces the one it holds.  The template  *)
(* file read by __init__ is taken to be present in every run.              *)

NoCall == [op |-> "none", path |-> <<>>, value |-> JNull, ok |-> TRUE, err |-> "",
           before |-> JNull, result |-> JNull]

Rerun(doc, upl, clicked) ==
    \E r1 \in (IF clicked THEN RenderOutcomes ELSE {"html"}),
       p1 \in (IF clicked THEN PdfOutcomes ELSE {"bytes"}),
       r2 \in RenderOutcomes :
        \E res \in {RunScript(doc, last_uploaded_file, upl, clicked, r1, p1, r2)} :
           /\ form_data' = res.form_data
           /\ last_uploaded_file' = res.last_uploaded_file
           /\ widgets' = res.widgets
           /\ messages' = res.messages
           /\ exception' = res.exception
           /\ export' = res.export
           /\ pdf' = res.pdf
           /\ calls' = res.calls
           /\ imported' = res.imported

\* the first script run of a session: __init__ stores the default Report
Init ==
    /\ \E r2 \in RenderOutcomes :
        \E res \in {RunScript(get_default_form_data, {}, {}, FALSE, "html", "bytes", r2)} :
           /\ form_data = res.form_data
           /\ last_uploaded_file = res.last_uploaded_file
           /\ widgets = res.widgets
           /\ messages = res.messages
           /\ exception = res.exception
           /\ export = res.export
           /\ pdf = res.pdf
           /\ calls = res.calls
           /\ imported = res.imported
    /\ uploader = {}
    /\ downloaded = {}
    /\ exported = {}
    /\ last = NoCall
    /\ events = [edits |-> 0, files |-> 0, clicks |-> 0, updates |-> 0]

\* the user changes an input widget: its on_change callback, then the rerun
\* (the widget exists only if get_field_value of its path succeeded in the last
\* run, so the callback's update_field does not raise)
EditField ==
    /\ UserEvents < MaxEvents
    /\ \E i \in EditedWidgets :
        /\ FormWidgets[i].key \in widgets
        /\ \E v \in InputValues(FormWidgets[i].kind) :
            Rerun(update_field(form_data, FormWidgets[i].path, v).doc, uploader, FALSE)
    /\ events' = [events EXCEPT !.edits = @ + 1]
    /\ UNCHANGED <<uploader, downloaded, exported, last>>

ClickGeneratePdf ==
    /\ UserEvents < MaxEvents
    /\ <<"generate_pdf">> \in widgets
    /\ Rerun(form_data, uploader, TRUE)
    /\ events' = [events EXCEPT !.clicks = @ + 1]
    /\ UNCHANGED <<uploader, downloaded, exported, last>>

\* the browser saves what the button of the last run holds; the script reruns
ClickExportJson ==
    /\ UserEvents < MaxEvents
    /\ <<"export_json">> \in widgets
    /\ downloaded' = {File(e.file_name, e.data) : e \in export}
    /\ exported' = {e.report : e \in export}
    /\ Rerun(form_data, uploader, FALSE)
    /\ events' = [events EXCEPT !.clicks = @ + 1]
    /\ UNCHANGED <<uploader, last>>

\* the browser saves the PDF; the rerun creates no "Download PDF" button, so
\* this event follows a "Generate PDF" click and needs no bound of its own
ClickDownloadPdf ==
    /\ <<"download_pdf">> \in widgets
    /\ Rerun(form_data, uploader, FALSE)
    /\ UNCHANGED <<uploader, downloaded, exported, last, events>>

\* the user puts a file into the uploader, empty or not
UploadFile ==
    /\ UserEvents < MaxEvents
    /\ <<"import_json">> \in widgets
    /\ \E f \in Files \cup downloaded :
        /\ uploader # {f}
        /\ uploader' = {f}
        /\ Rerun(form_data, {f}, FALSE)
    /\ events' = [events EXCEPT !.files = @ + 1]
    /\ UNCHANGED <<downloaded, exported, last>>

\* the user removes the file from the uploader
ClearUploader ==
    /\ UserEvents < MaxEvents
    /\ <<"import_json">> \in widgets
    /\ uploader # {}
    /\ uploader' = {}
    /\ Rerun(form_data, {}, FALSE)
    /\ events' = [events EXCEPT !.files = @ + 1]
    /\ UNCHANGED <<downloaded, exported, last>>

Next ==
    \/ EditField
    \/ ClickGeneratePdf
    \/ ClickExportJson
    \/ ClickDownloadPdf
    \/ UploadFile
    \/ ClearUploader

Spec == Init /\ [][Next]_vars

-----------------------------------------------------------------------------
(* The accessors called directly, on Reports the session can hold *)

StringAttackReport == update_field(ReportOfMay, Path1("attack1"), JStr(<<"x">>)).doc

AccessorReports ==
    { get_default_form_data, ReportOfMay, LowReport, StringAttackReport,
      JObj(NoMembers), JNum(<<"5">>) }

AccessorPaths ==
    {FormWidgets[i].path : i \in 1..Len(FormWidgets)}
    \cup { Path1("attack1"), Path1("foo"), Path2("attack1", "foo"), Path2("foo", "bar"),
           Path2("report_date", "x") }

AccessorValues == {JStr(<<"x">>), JBool(TRUE), JObj(NoMembers)}

AccessorInit ==
    /\ form_data \in AccessorReports
    /\ last_uploaded_file = {}
    /\ uploader = {}
    /\ widgets = {}
    /\ messages = {}
    /\ exception = ""
    /\ export = {}
    /\ pdf = {}
    /\ calls = <<>>
    /\ imported = {}
    /\ downloaded = {}
    /\ exported = {}
    /\ last = NoCall
    /\ events = [edits |-> 0, files |-> 0, clicks |-> 0, updates |-> 0]

page == <<last_uploaded_file, uploader, widgets, messages, exception, export, pdf,
          calls, imported, downloaded, exported>>

CallUpdateField ==
    /\ events.updates < MaxUpdates
    /\ \E p \in AccessorPaths, v \in AccessorValues :
        \E u \in {update_field(form_data, p, v)} :
            /\ form_data' = u.doc
            /\ last' = [op |-> "update_field", path |-> p, value |-> v, ok |-> u.ok,
                        err |-> u.err, before |-> form_data, result |-> JNull]
    /\ events' = [events EXCEPT !.updates = @ + 1]
    /\ UNCHANGED page

CallGetFieldValue ==
    /\ \E p \in AccessorPaths :
        \E g \in {get_field_value(form_data, p)} :
            last' = [op |-> "get_field_value", path |-> p, value |-> JNull, ok |-> g.ok,
                     err |-> g.err, before |-> form_data, result |-> g.val]
    /\ UNCHANGED <<form_data, events>>
    /\ UNCHANGED page

AccessorNext ==
    \/ CallUpdateField
    \/ CallGetFieldValue

AccessorSpec == AccessorInit /\ [][AccessorNext]_vars

-----------------------------------------------------------------------------
(* Properties *)

TheFile(u) == CHOOSE f \in u : TRUE

TruncatedFile == File(<<"truncated.json">>, SubSeq(dumps(ReportOfMay), 1, 7))

\* C1: for every path present in the Report and every value v, update_field(p, v)
\* succeeds and get_field_value(p) then returns v.
SetThenGet ==
    (last.op = "update_field" /\ get_field_value(last.before, last.path).ok)
        => (last.ok /\ get_field_value(form_data, last.path) = Found(last.value))

SetThenGetWitness ==
    /\ last.op = "update_field"
    /\ last.path = Path2("attack2", "mitigated")
    /\ last.before = ReportOfMay
    /\ last.value = JStr(<<"x">>)
    /\ last.ok
    /\ form_data # last.before

\* C2: get_field_value and update_field on a path that is not present in the
\* Report fail with KeyError and leave the Report as it was.
UnknownPathFails ==
    (last.op # "none" /\ ~get_field_value(last.before, last.path).ok)
        => (~last.ok /\ last.err = "KeyError" /\ form_data = last.before)

\* C3: importing the file saved from "Export JSON" stores a Report equal to the
\* Report that was exported.
RoundTrip ==
    (imported # {} /\ downloaded # {} /\ uploader = downloaded)
        => (imported = exported /\ form_data \in exported)

RoundTripWitness ==
    /\ imported = {form_data}
    /\ downloaded # {}
    /\ uploader = downloaded
    /\ form_data = update_field(get_default_form_data, Path2("attack1", "mitigated"), JBool(TRUE)).doc

\* C4: a run that parses a malformed file imports nothing: the Report is the one
\* from before the upload, the error is shown and the file is not recorded.
MalformedImportFails ==
    [][ ( /\ uploader' # {}
          /\ last_uploaded_file = {}
          /\ <<"import_json">> \in widgets'
          /\ ~loads(TheFile(uploader').data).ok )
        => ( /\ imported' = {}
             /\ last_uploaded_file' = {}
             /\ "Error importing JSON" \in messages'
             /\ (events'.edits = events.edits => form_data' = form_data) ) ]_vars

MalformedImportWitness ==
    /\ uploader = {TruncatedFile}
    /\ "Error importing JSON" \in messages
    /\ last_uploaded_file = {}
    /\ form_data = ReportOfMay

\* C5: whenever the user puts a well-formed JSON document into the uploader, the
\* Report at the end of that run is that document.
ImportReplacesReport ==
    [][ (uploader' # uploader /\ uploader' # {} /\ loads(TheFile(uploader').data).ok)
        => form_data' = loads(TheFile(uploader').data).val ]_vars

AttackFields == {Key("title"), Key("image"), Key("description"), Key("mitigated")}

\* C6: in every reachable state threat_level is one of the four levels and the
\* Report holds exactly attack1, attack2 and attack3, each with its four fields.
ReportInvariant ==
    /\ form_data.t = "obj"
    /\ DOMAIN form_data.o = DOMAIN get_default_form_data.o
    /\ IsThreatLevel(form_data.o[Key("threat_level")])
    /\ \A a \in {Key("attack1"), Key("attack2"), Key("attack3")} :
        form_data.o[a].t = "obj" /\ DOMAIN form_data.o[a].o = AttackFields

\* C7: every script run completes without an unhandled exception, and the
\* uploader stays available for a later import.
SessionNeverCrashes == exception = "" /\ <<"import_json">> \in widgets

PdfBranchInOrder ==
    /\ Len(calls) <= 3
    /\ \A i \in 1..Len(calls) :
        calls[i].fn = <<"render_template", "generate_pdf", "download_button">>[i]
    /\ Len(calls) >= 2 => calls[1].returned = "html"
    /\ Len(calls) = 3 <=> pdf # {}
    /\ Len(calls) = 3 => calls[2].returned = "bytes"
    /\ (Len(calls) >= 1 /\ calls[1].returned = "None")
           => ("Error rendering template" \in messages /\ pdf = {})
    /\ (Len(calls) >= 2 /\ calls[2].returned = "None")
           => ("Error generating PDF" \in messages /\ pdf = {})

\* C8: "Generate PDF" calls render_template, then generate_pdf only on HTML, then
\* offers the download only on bytes, each once; a failure shows its error and
\* offers no PDF; the Report is unchanged.
GeneratePdfInOrder ==
    [][ calls' # <<>> => (form_data' = form_data /\ PdfBranchInOrder') ]_vars

GeneratePdfWitness ==
    /\ Len(calls) = 2
    /\ calls[2].returned = "None"
    /\ "Error generating PDF" \in messages
    /\ pdf = {}
    /\ form_data = ReportOfMay

\* C9: at the end of every script run the payload and the file name of the
\* "Export JSON" button are those of the Report held at the end of that run.
ExportMatchesReport ==
    \A e \in export :
        /\ e.data = dumps(form_data)
        /\ file_name(form_data, ".json") = Found(JStr(e.file_name))

\* C10: while an imported file stays in the uploader it is not imported again and
\* only the user's edits change the Report; the flag is cleared only by a run that
\* finds the uploader empty, and with the flag absent an upload is imported.
ImportOnce ==
    [][ /\ (last_uploaded_file # {} /\ uploader # {} /\ uploader' = uploader)
            => ( /\ imported' = {}
                 /\ last_uploaded_file' = last_uploaded_file
                 /\ IF events'.edits = events.edits
                    THEN form_data' = form_data
                    ELSE \E i \in EditedWidgets :
                            \E v \in InputValues(FormWidgets[i].kind) :
                                form_data' = update_field(form_data, FormWidgets[i].path, v).doc )
        /\ (last_uploaded_file # {} /\ last_uploaded_file' = {}) => uploader' = {}
        /\ ( /\ last_uploaded_file = {}
             /\ uploader' # {}
             /\ <<"import_json">> \in widgets'
             /\ loads(TheFile(uploader').data).ok )
            => ( /\ imported' = {loads(TheFile(uploader').data).val}
                 /\ form_data' = loads(TheFile(uploader').data).val
                 /\ last_uploaded_file' = {TheFile(uploader').name} ) ]_vars

ImportOnceWitness ==
    /\ uploader = {File(<<"may.json">>, dumps(ReportOfMay))}
    /\ last_uploaded_file = {<<"may.json">>}
    /\ form_data = update_field(ReportOfMay, Path1("hunting_text"), JStr(<<"May", " ", "2025">>)).doc
    /\ calls # <<>>

====
